---- MODULE Spec2Model ----
(***************************************************************************)
(* Model of main/lsp/LSPIndexer.cc: the LSP indexer's initialize and       *)
(* commitEdit (fast/slow path classification, eviction bookkeeping, the    *)
(* pending-update ledger and slow path cancellation) and the parallel      *)
(* computeFileHashes.                                                      *)
(*                                                                         *)
(* FileId k is position k of the file table gs (FileId 0 is "no file").    *)
(* A file is [path, ver, def, hash]: ver identifies the content (the epoch *)
(* of the edit that delivered it, 0 for files read at initialize), def is  *)
(* the definition hash pipeline::computeFileHash yields for that content,  *)
(* hash is the definition hash stored on the file object.                  *)
(***************************************************************************)
EXTENDS Integers, Sequences, FiniteSets, TLC

\* ------------------------------------------------------------- bounds
MaxEpoch == 4
MaxMergeCount == 1
MaxGap == 1
MaxFiles == 3
MaxWorkers == 2

\* ------------------------------------------------------------- hashes and files
HASH_STATE_NOT_COMPUTED == 0
HASH_STATE_INVALID == 1
ConcreteHashes == {2, 3}

File(p, v, d, h) == [path |-> p, ver |-> v, def |-> d, hash |-> h]
NullFile == File(0, 0, 0, 0)
EmptyTree == [file |-> 0, ver |-> 0]
EmptyMap == [k \in {} |-> NullFile]

\* config->opts.inputFileNames and config->disableFastPath
inputFileNames == <<1, 2>>
disableFastPath == FALSE

RECURSIVE SortedSeq(_)
SortedSeq(S) ==
    IF S = {} THEN <<>>
    ELSE LET m == CHOOSE x \in S : \A y \in S : x <= y
         IN <<m>> \o SortedSeq(S \ {m})

Range(s) == {s[i] : i \in 1..Len(s)}

\* ------------------------------------------------------------- anonymous namespace helpers
getOldFile(fref, g, ev) ==
    IF fref \in DOMAIN ev THEN ev[fref] ELSE g[fref]

mergeEvictedFilesKeepNewer(oldEvictedFiles, newlyEvictedFiles) ==
    [k \in DOMAIN oldEvictedFiles \cup DOMAIN newlyEvictedFiles |->
        IF k \in DOMAIN newlyEvictedFiles THEN newlyEvictedFiles[k] ELSE oldEvictedFiles[k]]

mergeEvictedFiles(oldEvictedFiles, newlyEvictedFiles) ==
    [k \in DOMAIN oldEvictedFiles \cup DOMAIN newlyEvictedFiles |->
        IF k \in DOMAIN oldEvictedFiles THEN oldEvictedFiles[k] ELSE newlyEvictedFiles[k]]

\* ------------------------------------------------------------- collaborators
computeFileHash(f) == f.def

findFileByPath(g, p) ==
    IF \E k \in 1..Len(g) : g[k].path = p
    THEN CHOOSE k \in 1..Len(g) : g[k].path = p
    ELSE 0

\* pipeline::index: one tree per file, sorted by FileId, parsed from the
\* content the file table holds at the time of the call. A tree is
\* [file, ver]: the FileId it belongs to and the content it was parsed from.
pipelineIndex(g, frefs) ==
    LET ids == SortedSeq(Range(frefs))
    IN [k \in 1..Len(ids) |-> [file |-> ids[k], ver |-> g[ids[k]].ver]]

\* LSPFileUpdates: default-constructed value, copy() and mergeOlder().
\* updatedGS is <<>> when unset and <<g>> when it holds the file table g.
NewUpdate ==
    [epoch |-> 0, editCount |-> 0, committedEditCount |-> 0,
     canTakeFastPath |-> FALSE, hasNewFiles |-> FALSE, canceledSlowPath |-> FALSE,
     updatedFiles |-> <<>>, updatedFileIndexes |-> <<>>, updatedGS |-> <<>>]

copy(u) == [u EXCEPT !.updatedGS = <<>>, !.canceledSlowPath = FALSE]

RECURSIVE appendOlder(_, _, _, _, _)
appendOlder(files, trees, olderFiles, olderTrees, i) ==
    IF i > Len(olderFiles) THEN [files |-> files, trees |-> trees]
    ELSE IF \E j \in 1..Len(files) : files[j].path = olderFiles[i].path
         THEN appendOlder(files, trees, olderFiles, olderTrees, i + 1)
         ELSE appendOlder(Append(files, olderFiles[i]), Append(trees, olderTrees[i]),
                          olderFiles, olderTrees, i + 1)

mergeOlder(self, older) ==
    LET m == appendOlder(self.updatedFiles, self.updatedFileIndexes,
                         older.updatedFiles, older.updatedFileIndexes, 1)
    IN [self EXCEPT !.editCount = self.editCount + older.editCount,
                    !.committedEditCount = self.committedEditCount + older.committedEditCount,
                    !.hasNewFiles = self.hasNewFiles \/ older.hasNewFiles,
                    !.updatedFiles = m.files,
                    !.updatedFileIndexes = m.trees,
                    !.updatedGS = <<>>]

\* TypecheckEpochManager: {running, epoch}.
getStatus(em) == [slowPathRunning |-> em.running, epoch |-> em.epoch]
tryCancelSlowPath(em, newEpoch) == em.running /\ newEpoch > em.epoch

\* ------------------------------------------------------------- computeFileHashes (its result)
computeFileHashes(files) ==
    [i \in 1..Len(files) |->
        IF files[i] = NullFile \/ files[i].hash # HASH_STATE_NOT_COMPUTED
        THEN files[i]
        ELSE [files[i] EXCEPT !.hash = computeFileHash(files[i])]]

\* ------------------------------------------------------------- canTakeFastPath
canTakeFastPathIgnoringInvalid(changedFiles, containsPendingTypecheckUpdates, g, ev) ==
    IF disableFastPath THEN FALSE
    ELSE LET evictedFilesRef == IF containsPendingTypecheckUpdates THEN ev ELSE EmptyMap
         IN \A i \in 1..Len(changedFiles) :
               LET f == changedFiles[i]
                   fref == findFileByPath(g, f.path)
               IN /\ fref # 0
                  /\ \/ f.hash = HASH_STATE_INVALID
                     \/ f.hash = getOldFile(fref, g, evictedFilesRef).hash

canTakeFastPathFiles(changedFiles, containsPendingTypecheckUpdates, g, ev) ==
    IF disableFastPath THEN FALSE
    ELSE LET evictedFilesRef == IF containsPendingTypecheckUpdates THEN ev ELSE EmptyMap
         IN \A i \in 1..Len(changedFiles) :
               LET f == changedFiles[i]
                   fref == findFileByPath(g, f.path)
               IN /\ fref # 0
                  /\ f.hash # HASH_STATE_INVALID
                  /\ f.hash = getOldFile(fref, g, evictedFilesRef).hash

canTakeFastPath(edit, containsPendingTypecheckUpdates, g, ev) ==
    IF edit.hasNewFiles THEN FALSE
    ELSE canTakeFastPathFiles(edit.updatedFiles, containsPendingTypecheckUpdates, g, ev)

\* pipeline::reserveFiles: enters the input files, read from disk, unhashed.
diskFile(p) == File(p, 0, 2, HASH_STATE_NOT_COMPUTED)
reserveFiles(g, names) == g \o [k \in 1..Len(names) |-> diskFile(names[k])]

\* ------------------------------------------------------------- commitEdit, step by step
\* The loop that installs the edit's files in the file table.
\* st = [gs, newlyEvictedFiles, frefs, hasNewFiles].
RECURSIVE replaceOrEnter(_, _, _)
replaceOrEnter(files, i, st) ==
    IF i > Len(files) THEN st
    ELSE LET file == files[i]
             fref == findFileByPath(st.gs, file.path)
         IN IF fref # 0
            THEN replaceOrEnter(files, i + 1,
                    [st EXCEPT !.newlyEvictedFiles =
                                   [k \in DOMAIN st.newlyEvictedFiles \cup {fref} |->
                                       IF k = fref THEN st.gs[fref]
                                       ELSE st.newlyEvictedFiles[k]],
                               !.gs = [st.gs EXCEPT ![fref] = file],
                               !.frefs = Append(st.frefs, fref)])
            ELSE replaceOrEnter(files, i + 1,
                    [st EXCEPT !.hasNewFiles = TRUE,
                               !.gs = Append(st.gs, file),
                               !.frefs = Append(st.frefs, Len(st.gs) + 1)])

\* The trees pipeline::index returned, put back in edit order.
reorderTreesByFileId(trees, frefs) == trees

reorderTrees(trees, frefs) ==
    LET fileToPos == [id \in Range(frefs) |->
                         CHOOSE i \in 1..Len(frefs) :
                             /\ frefs[i] = id
                             /\ \A j \in 1..Len(frefs) : frefs[j] = id => j <= i]
    IN [i \in 1..Len(trees) |->
           IF \E k \in 1..Len(trees) : fileToPos[trees[k].file] = i
           THEN trees[CHOOSE k \in 1..Len(trees) : fileToPos[trees[k].file] = i]
           ELSE EmptyTree]

\* Lines 229-290: the update built from the edit alone, with the file table
\* changed and the changed files re-indexed.
buildUpdate(edit, g, ev) ==
    LET files == computeFileHashes(edit.updates)
        u0 == [NewUpdate EXCEPT !.epoch = edit.epoch,
                                !.editCount = edit.mergeCount + 1,
                                !.updatedFiles = files]
        u1 == [u0 EXCEPT !.canTakeFastPath = canTakeFastPath(u0, FALSE, g, ev)]
        st == replaceOrEnter(files, 1,
                  [gs |-> g, newlyEvictedFiles |-> EmptyMap, frefs |-> <<>>,
                   hasNewFiles |-> FALSE])
        trees == pipelineIndex(st.gs, st.frefs)
    IN [update |-> [u1 EXCEPT !.hasNewFiles = st.hasNewFiles,
                              !.updatedFileIndexes = reorderTrees(trees, st.frefs)],
        gs |-> st.gs,
        newlyEvictedFiles |-> st.newlyEvictedFiles]

\* Lines 302-304: the edit merged over the pending update, reclassified.
buildMergedWithoutPending(update, pending, g, ev) ==
    LET m == copy(update)
    IN [m EXCEPT !.canTakeFastPath = canTakeFastPath(m, TRUE, g, ev)]

buildMerged(update, pending, g, ev) ==
    LET m == mergeOlder(copy(update), pending)
    IN [m EXCEPT !.canTakeFastPath = canTakeFastPath(m, TRUE, g, ev)]

\* Line 306, first operand: is cancellation worth trying.
wantsCancelAlways(merged, update) == TRUE

wantsCancelOnlyIfMergedFast(merged, update) == merged.canTakeFastPath

wantsCancel(merged, update) == merged.canTakeFastPath \/ ~update.canTakeFastPath

\* Lines 308-311: cancellation succeeded.
cancelSucceeded(l, ev) ==
    [l EXCEPT !.update = [l.merged EXCEPT !.canceledSlowPath = TRUE],
              !.newlyEvictedFiles = mergeEvictedFiles(ev, l.newlyEvictedFiles)]

\* Lines 328-351: the ledger update. Yields the returned update, the new
\* pendingTypecheckUpdates and the new evictedFiles.
ledgerNeverSnapshots(update, newlyEvictedFiles, pending, ev, g) ==
    IF update.canTakeFastPath
    THEN LET merged == mergeOlder(copy(update), pending)
         IN [update |-> update,
             pending |-> IF ~update.canceledSlowPath
                         THEN [merged EXCEPT !.committedEditCount = @ + update.editCount]
                         ELSE merged,
             evictedFiles |-> mergeEvictedFiles(ev, newlyEvictedFiles)]
    ELSE [update |-> update, pending |-> copy(update), evictedFiles |-> newlyEvictedFiles]

ledgerNoMerge(update, newlyEvictedFiles, pending, ev, g) ==
    IF update.canTakeFastPath
    THEN [update |-> update,
          pending |-> IF ~update.canceledSlowPath
                      THEN [copy(update) EXCEPT !.committedEditCount = @ + update.editCount]
                      ELSE copy(update),
          evictedFiles |-> mergeEvictedFiles(ev, newlyEvictedFiles)]
    ELSE LET u == [update EXCEPT !.updatedGS = <<g>>]
         IN [update |-> u, pending |-> copy(u), evictedFiles |-> newlyEvictedFiles]

ledgerKeepsPendingEpoch(update, newlyEvictedFiles, pending, ev, g) ==
    IF update.canTakeFastPath
    THEN LET merged == [mergeOlder(copy(update), pending) EXCEPT !.epoch = pending.epoch]
         IN [update |-> update,
             pending |-> IF ~update.canceledSlowPath
                         THEN [merged EXCEPT !.committedEditCount = @ + update.editCount]
                         ELSE merged,
             evictedFiles |-> mergeEvictedFiles(ev, newlyEvictedFiles)]
    ELSE LET u == [update EXCEPT !.updatedGS = <<g>>]
         IN [update |-> u, pending |-> copy(u), evictedFiles |-> newlyEvictedFiles]

ledgerMergesNewerUnderOlder(update, newlyEvictedFiles, pending, ev, g) ==
    IF update.canTakeFastPath
    THEN LET merged == [mergeOlder(copy(pending), update) EXCEPT !.epoch = update.epoch]
         IN [update |-> update,
             pending |-> IF ~update.canceledSlowPath
                         THEN [merged EXCEPT !.committedEditCount = @ + update.editCount]
                         ELSE merged,
             evictedFiles |-> mergeEvictedFiles(ev, newlyEvictedFiles)]
    ELSE LET u == [update EXCEPT !.updatedGS = <<g>>]
         IN [update |-> u, pending |-> copy(u), evictedFiles |-> newlyEvictedFiles]

ledgerUpdate(update, newlyEvictedFiles, pending, ev, g) ==
    IF update.canTakeFastPath
    THEN LET merged == mergeOlder(copy(update), pending)
         IN [update |-> update,
             pending |-> IF ~update.canceledSlowPath
                         THEN [merged EXCEPT !.committedEditCount = @ + update.editCount]
                         ELSE merged,
             evictedFiles |-> mergeEvictedFiles(ev, newlyEvictedFiles)]
    ELSE LET u == [update EXCEPT !.updatedGS = <<g>>]
         IN [update |-> u, pending |-> copy(u), evictedFiles |-> newlyEvictedFiles]

\* ------------------------------------------------------------- diagnostic latency timers
\* A timer object: the epoch of the edit it measures and how many times it
\* was cloned on the way (clone() yields a new object). NullTimer is what a
\* moved-from unique_ptr holds.
Timer(e) == [id |-> e, clones |-> 0]
NullTimer == [id |-> 0, clones |-> 0]
clone(t) == [t EXCEPT !.clones = @ + 1]

\* Lines 33-45. Yields the new list and the set of timers it canceled.
clearAndReplaceTimersKeepsOld(timers, newTimers) ==
    [timers |-> timers \o [i \in 1..Len(newTimers) |-> clone(newTimers[i])],
     canceled |-> {}]

clearAndReplaceTimers(timers, newTimers) ==
    [timers |-> [i \in 1..Len(newTimers) |-> clone(newTimers[i])],
     canceled |-> {timers[i] : i \in 1..Len(timers)} \ {NullTimer}]

\* Lines 317-326: pending is pendingTypecheckDiagnosticLatencyTimers, edit is
\* edit.diagnosticLatencyTimers. Yields both lists and the canceled timers.
timersUpdateCopiesPending(update, edit, pending) ==
    IF update.canceledSlowPath
    THEN LET appended == edit \o pending
             r == clearAndReplaceTimers(pending, appended)
         IN [pending |-> r.timers, edit |-> appended, canceled |-> r.canceled]
    ELSE IF ~update.canTakeFastPath
         THEN LET r == clearAndReplaceTimers(pending, edit)
              IN [pending |-> r.timers, edit |-> edit, canceled |-> r.canceled]
         ELSE [pending |-> pending, edit |-> edit, canceled |-> {}]

timersUpdate(update, edit, pending) ==
    IF update.canceledSlowPath
    THEN LET appended == edit \o pending
             movedFrom == [i \in 1..Len(pending) |-> NullTimer]
             r == clearAndReplaceTimers(movedFrom, appended)
         IN [pending |-> r.timers, edit |-> appended, canceled |-> r.canceled]
    ELSE IF ~update.canTakeFastPath
         THEN LET r == clearAndReplaceTimers(pending, edit)
              IN [pending |-> r.timers, edit |-> edit, canceled |-> r.canceled]
         ELSE [pending |-> pending, edit |-> edit, canceled |-> {}]

\* ------------------------------------------------------------- error queue
\* initialGS->errorQueue. The queue GlobalState was constructed with has
\* id 0 and flushes; a throwaway queue is a new object that ignores flushes.
RealErrorQueue == [id |-> 0, ignoreFlushes |-> FALSE]
ThrowawayErrorQueue(n) == [id |-> n, ignoreFlushes |-> TRUE]

\* Lines 189-191 and 226: the queue while initialize indexes and when it returns.
initializeErrorQueue(errorQueue) ==
    LET savedErrorQueue == errorQueue
        during == ThrowawayErrorQueue(0)
    IN [during |-> during, after |-> savedErrorQueue]

\* Lines 280-284: the queue while commitEdit indexes and when it returns.
commitEditErrorQueue(errorQueue, epoch) ==
    LET during == ThrowawayErrorQueue(epoch)
    IN [during |-> during, after |-> during]

\* ------------------------------------------------------------- initialize
\* Lines 193-216: trees of the input files placed by FileId, padded to the
\* size of the file table.
indexInitial(g, inputFiles) ==
    LET trees == pipelineIndex(g, inputFiles)
    IN [id \in 1..Len(g) |->
           IF \E k \in 1..Len(trees) : trees[k].file = id
           THEN trees[CHOOSE k \in 1..Len(trees) : trees[k].file = id]
           ELSE EmptyTree]

initializeWithoutHashing(updates, g) ==
    LET g1 == reserveFiles(g, inputFileNames)
        inputFiles == [k \in 1..Len(inputFileNames) |-> Len(g) + k]
    IN [gs |-> g1,
        updates |-> [updates EXCEPT !.epoch = 0,
                                    !.canTakeFastPath = FALSE,
                                    !.updatedFileIndexes = indexInitial(g1, inputFiles),
                                    !.updatedGS = <<g1>>]]

initialize(updates, g) ==
    LET g1 == reserveFiles(g, inputFileNames)
        inputFiles == [k \in 1..Len(inputFileNames) |-> Len(g) + k]
        g2 == computeFileHashes(g1)
    IN [gs |-> g2,
        updates |-> [updates EXCEPT !.epoch = 0,
                                    !.canTakeFastPath = FALSE,
                                    !.updatedFileIndexes = indexInitial(g1, inputFiles),
                                    !.updatedGS = <<g2>>]]

\* ------------------------------------------------------------- state
VARIABLES
    initialized,              \* LSPIndexer::initialized
    gs,                       \* initialGS: the file table, by FileId
    evictedFiles,             \* LSPIndexer::evictedFiles: FileId -> older file
    pendingTypecheckUpdates,  \* LSPIndexer::pendingTypecheckUpdates
    epochManager,             \* initialGS->epochManager: [running, epoch]
    pc,                       \* where the indexer thread is inside commitEdit
    local,                    \* commitEdit's locals while it arbitrates
    ret,                      \* the update the last commitEdit returned
    updates,                  \* the out-parameter of initialize
    lastCall,                 \* outcome of the last call of the facade
    handoff,                  \* epoch of a returned slow path the typechecker is to start
    tcAbandon,                \* what the typechecker does once it sees the cancellation
    hist,                     \* history: baseline, last edit epoch, ...
    hasher,                   \* one call of computeFileHashes(files, workers)
    errorQueue,               \* initialGS->errorQueue
    pendingTypecheckDiagnosticLatencyTimers,
    editTimers                \* edit.diagnosticLatencyTimers when commitEdit returned

vars == <<initialized, gs, evictedFiles, pendingTypecheckUpdates, epochManager, pc,
          local, ret, updates, lastCall, handoff, tcAbandon, hist, hasher, errorQueue,
          pendingTypecheckDiagnosticLatencyTimers, editTimers>>

indexerVars == <<initialized, gs, evictedFiles, pendingTypecheckUpdates, epochManager,
                 pc, local, ret, updates, lastCall, handoff, tcAbandon, hist, errorQueue,
                 pendingTypecheckDiagnosticLatencyTimers, editTimers>>

timerVars == <<pendingTypecheckDiagnosticLatencyTimers, editTimers>>

NoHasher ==
    [pc |-> "idle", files |-> <<>>, files0 |-> <<>>, workers |-> 0, fileq |-> <<>>,
     resultq |-> <<>>, left |-> 0, task |-> <<>>,
     popped |-> <<>>, hashed |-> <<>>, written |-> <<>>]

NoLocal ==
    [update |-> NewUpdate, merged |-> NewUpdate, newlyEvictedFiles |-> EmptyMap,
     cancelOk |-> FALSE, gsBefore |-> <<>>, paths |-> {},
     diagnosticLatencyTimers |-> <<>>, errorQueueBefore |-> RealErrorQueue]

Init ==
    /\ initialized = FALSE
    /\ gs = <<>>
    /\ evictedFiles = EmptyMap
    /\ pendingTypecheckUpdates = NewUpdate
    /\ epochManager = [running |-> FALSE, epoch |-> 0]
    /\ pc = "idle"
    /\ local = NoLocal
    /\ ret = NewUpdate
    /\ updates = NewUpdate
    /\ lastCall = "none"
    /\ handoff = 0
    /\ tcAbandon = "none"
    /\ hist = [baseline |-> <<>>, lastEpoch |-> 0, contiguous |-> TRUE,
               touched |-> {}, enforce |-> "unchecked", cancelCalls |-> 0,
               mergedVerdict |-> FALSE, initCount |-> 0, updateVerdict |-> FALSE,
               cancelArg |-> 0, canceledTimers |-> {}]
    /\ hasher = NoHasher
    /\ errorQueue = RealErrorQueue
    /\ pendingTypecheckDiagnosticLatencyTimers = <<>>
    /\ editTimers = <<>>

\* ------------------------------------------------------------- edits delivered to commitEdit
\* A delivered file: path, definition hash of its content, and the hash
\* already stored on it (some editors' files arrive hashed, some do not).
P(p, d, h) == <<p, d, h>>

EditFileLists ==
    { <<P(1, 3, HASH_STATE_NOT_COMPUTED)>>,
      <<P(1, 2, 2)>>,
      <<P(1, HASH_STATE_INVALID, HASH_STATE_NOT_COMPUTED)>>,
      <<P(3, 2, HASH_STATE_NOT_COMPUTED)>>,
      <<P(1, 2, 2), P(2, 3, HASH_STATE_NOT_COMPUTED)>>,
      <<P(2, 2, HASH_STATE_NOT_COMPUTED), P(1, 2, HASH_STATE_NOT_COMPUTED)>> }

EditOf(e, mc, fl) ==
    [epoch |-> e, mergeCount |-> mc, diagnosticLatencyTimers |-> <<Timer(e)>>,
     updates |-> [i \in 1..Len(fl) |-> File(fl[i][1], e, fl[i][2], fl[i][3])]]

Edits ==
    { EditOf(hist.lastEpoch + mc + 1 + gap, mc, fl) :
        mc \in 0..MaxMergeCount, gap \in 0..MaxGap, fl \in EditFileLists }

\* ------------------------------------------------------------- actions
Initialize ==
    /\ ~initialized
    /\ pc = "idle"
    /\ LET r == initialize(updates, gs)
       IN /\ gs' = r.gs
          /\ updates' = r.updates
          /\ hist' = [hist EXCEPT !.baseline = r.gs, !.initCount = @ + 1]
    /\ errorQueue' = initializeErrorQueue(errorQueue).after
    /\ initialized' = TRUE
    /\ lastCall' = "initialized"
    /\ UNCHANGED <<hasher, timerVars>>
    /\ UNCHANGED <<evictedFiles, pendingTypecheckUpdates, epochManager, pc, local, ret,
                   handoff, tcAbandon>>

\* Line 183-185: the exception leaves everything as it was.
InitializeAgain ==
    /\ initialized
    /\ pc = "idle"
    /\ lastCall' = "initializeFailed"
    /\ UNCHANGED <<hasher, errorQueue, timerVars>>
    /\ UNCHANGED <<initialized, gs, evictedFiles, pendingTypecheckUpdates, epochManager,
                   pc, local, ret, updates, handoff, tcAbandon, hist>>

CanCommit(edit) ==
    /\ initialized
    /\ pc = "idle"
    /\ handoff = 0
    /\ edit.epoch <= MaxEpoch

histAtStart(edit, checked, verdict, updateVerdict) ==
    [hist EXCEPT !.lastEpoch = edit.epoch,
                 !.contiguous = hist.contiguous
                                /\ edit.epoch = hist.lastEpoch + edit.mergeCount + 1,
                 !.enforce = checked,
                 !.cancelCalls = 0,
                 !.cancelArg = 0,
                 !.mergedVerdict = verdict,
                 !.updateVerdict = updateVerdict]

\* The baseline moves when pendingTypecheckUpdates is replaced by a slow
\* path that canceled nothing; the touched paths restart there too.
histAtEnd(h, update, gsBefore, paths) ==
    IF ~update.canTakeFastPath /\ ~update.canceledSlowPath
    THEN [h EXCEPT !.baseline = gsBefore, !.touched = paths]
    ELSE [h EXCEPT !.touched = h.touched \cup paths]

EditPaths(edit) == {edit.updates[i].path : i \in 1..Len(edit.updates)}

\* Lines 315-351 applied to `update`; the tail of every commitEdit.
Finish(update, newlyEvictedFiles, g, gsBefore, paths, h, diagnosticLatencyTimers) ==
    LET t == timersUpdate(update, diagnosticLatencyTimers,
                          pendingTypecheckDiagnosticLatencyTimers)
        r == ledgerUpdate(update, newlyEvictedFiles, pendingTypecheckUpdates,
                          evictedFiles, g)
    IN /\ pendingTypecheckDiagnosticLatencyTimers' = t.pending
       /\ editTimers' = t.edit
       /\ pendingTypecheckUpdates' = r.pending
       /\ evictedFiles' = r.evictedFiles
       /\ ret' = r.update
       /\ handoff' = IF ~r.update.canTakeFastPath /\ ~r.update.canceledSlowPath
                     THEN r.update.epoch ELSE 0
       /\ hist' = [histAtEnd(h, r.update, gsBefore, paths) EXCEPT
                       !.canceledTimers = t.canceled]
       /\ lastCall' = "commitEdit"
       /\ pc' = "idle"
       /\ local' = NoLocal

\* The two ENFORCEs at lines 299-300.
epochInterval(status, pending) ==
    /\ status.epoch <= pending.epoch
    /\ status.epoch > pending.epoch - pending.editCount

\* commitEdit, lines 229-306: up to the return when no slow path runs or
\* line 306 decides not to cancel, and up to the call of tryCancelSlowPath
\* otherwise.
commitEdit ==
    \E edit \in Edits :
        /\ CanCommit(edit)
        /\ LET b == buildUpdate(edit, gs, evictedFiles)
               runningSlowPath == getStatus(epochManager)
               merged == buildMerged(b.update, pendingTypecheckUpdates, b.gs, evictedFiles)
               checked == IF ~runningSlowPath.slowPathRunning THEN "unchecked"
                          ELSE IF epochInterval(runningSlowPath, pendingTypecheckUpdates)
                               THEN "ok" ELSE "failed"
               h == histAtStart(edit, checked,
                                runningSlowPath.slowPathRunning /\ merged.canTakeFastPath,
                                b.update.canTakeFastPath)
           IN /\ gs' = b.gs
              /\ errorQueue' = commitEditErrorQueue(errorQueue, edit.epoch).after
              /\ IF runningSlowPath.slowPathRunning /\ wantsCancel(merged, b.update)
                 THEN /\ local' = [update |-> b.update, merged |-> merged,
                                   newlyEvictedFiles |-> b.newlyEvictedFiles,
                                   cancelOk |-> FALSE, gsBefore |-> gs,
                                   paths |-> EditPaths(edit),
                                   diagnosticLatencyTimers |-> edit.diagnosticLatencyTimers,
                                   errorQueueBefore |-> errorQueue]
                      /\ hist' = h
                      /\ pc' = "tryCancel"
                      /\ lastCall' = "commitEdit"
                      /\ UNCHANGED <<evictedFiles, pendingTypecheckUpdates, ret, handoff,
                                     timerVars>>
                 ELSE Finish(b.update, b.newlyEvictedFiles, b.gs, gs, EditPaths(edit), h,
                             edit.diagnosticLatencyTimers)
        /\ UNCHANGED hasher
        /\ UNCHANGED <<initialized, epochManager, updates, tcAbandon>>

\* Line 307: the call of tryCancelSlowPath(merged.epoch).
commitEditTryCancel ==
    /\ pc = "tryCancel"
    /\ LET ok == tryCancelSlowPath(epochManager, local.merged.epoch)
       IN /\ epochManager' = IF ok THEN [epochManager EXCEPT !.epoch = local.merged.epoch]
                             ELSE epochManager
          /\ tcAbandon' = IF ok
                          THEN (IF local.merged.canTakeFastPath THEN "idle" ELSE "restart")
                          ELSE tcAbandon
          /\ local' = [local EXCEPT !.cancelOk = ok]
    /\ hist' = [hist EXCEPT !.cancelCalls = @ + 1, !.cancelArg = local.merged.epoch]
    /\ pc' = "arbitrated"
    /\ UNCHANGED <<hasher, errorQueue, timerVars>>
    /\ UNCHANGED <<initialized, gs, evictedFiles, pendingTypecheckUpdates, ret, updates,
                   lastCall, handoff>>

\* Lines 308-351, after tryCancelSlowPath returned.
commitEditFinish ==
    /\ pc = "arbitrated"
    /\ LET l == IF local.cancelOk THEN cancelSucceeded(local, evictedFiles) ELSE local
       IN Finish(l.update, l.newlyEvictedFiles, gs, local.gsBefore, local.paths, hist,
                 local.diagnosticLatencyTimers)
    /\ UNCHANGED <<hasher, errorQueue>>
    /\ UNCHANGED <<initialized, gs, epochManager, updates, tcAbandon>>

\* The typechecker thread: starts the slow path handed to it, finishes it,
\* or sees that it was canceled.
TypecheckerStart ==
    /\ handoff # 0
    /\ epochManager' = [running |-> TRUE, epoch |-> handoff]
    /\ handoff' = 0
    /\ tcAbandon' = "none"
    /\ UNCHANGED <<hasher, errorQueue, timerVars>>
    /\ UNCHANGED <<initialized, gs, evictedFiles, pendingTypecheckUpdates, pc, local, ret,
                   updates, lastCall, hist>>

TypecheckerFinish ==
    /\ epochManager.running
    /\ tcAbandon = "none"
    /\ epochManager' = [epochManager EXCEPT !.running = FALSE]
    /\ UNCHANGED <<hasher, errorQueue, timerVars>>
    /\ UNCHANGED <<initialized, gs, evictedFiles, pendingTypecheckUpdates, pc, local, ret,
                   updates, lastCall, handoff, tcAbandon, hist>>

TypecheckerCanceled ==
    /\ epochManager.running
    /\ tcAbandon # "none"
    /\ epochManager' = IF tcAbandon = "idle"
                       THEN [epochManager EXCEPT !.running = FALSE]
                       ELSE epochManager
    /\ tcAbandon' = "none"
    /\ UNCHANGED <<hasher, errorQueue, timerVars>>
    /\ UNCHANGED <<initialized, gs, evictedFiles, pendingTypecheckUpdates, pc, local, ret,
                   updates, lastCall, handoff, hist>>

Next ==
    \/ Initialize
    \/ InitializeAgain
    \/ commitEdit
    \/ commitEditTryCancel
    \/ commitEditFinish
    \/ TypecheckerStart
    \/ TypecheckerFinish
    \/ TypecheckerCanceled

Spec == Init /\ [][Next]_vars


\* ------------------------------------------------------------- computeFileHashes, step by step
\* hasher.files are the file objects, hasher.fileq the queue of indexes,
\* hasher.resultq the queue of [results, count] batches and hasher.left what
\* the result queue still expects; hasher.task[t] is worker task t.
\* hasher.popped[i], hasher.hashed[i] and hasher.written[i] count how often
\* index i left the index queue, was hashed, and had its hash installed.
HashInputFiles ==
    { NullFile,
      File(1, 0, 2, HASH_STATE_NOT_COMPUTED),
      File(2, 0, 2, 2),
      File(3, 0, HASH_STATE_INVALID, HASH_STATE_NOT_COMPUTED) }

HashInputs == UNION { [1..n -> HashInputFiles] : n \in 0..MaxFiles }

allFilesHaveHashes(files) ==
    \A i \in 1..Len(files) :
        files[i] = NullFile \/ files[i].hash # HASH_STATE_NOT_COMPUTED

\* WorkerPool::multiplexJob: one task per worker; with no workers the task
\* runs on the caller before multiplexJob returns.
NumTasks(workers) == IF workers = 0 THEN 1 ELSE workers

\* Lines 58-68: all files have hashes already.
computeFileHashesFastAbort ==
    /\ hasher.pc = "idle"
    /\ \E files \in HashInputs, workers \in 0..MaxWorkers :
          /\ allFilesHaveHashes(files)
          /\ hasher' = [hasher EXCEPT !.pc = "done", !.files = files, !.files0 = files,
                                      !.workers = workers,
                                      !.popped = [i \in 1..Len(files) |-> 0],
                                      !.hashed = [i \in 1..Len(files) |-> 0],
                                      !.written = [i \in 1..Len(files) |-> 0]]
    /\ UNCHANGED indexerVars

\* Lines 70-104: fill the index queue and hand the task to the workers.
computeFileHashesStart ==
    /\ hasher.pc = "idle"
    /\ \E files \in HashInputs, workers \in 0..MaxWorkers :
          /\ ~allFilesHaveHashes(files)
          /\ hasher' = [pc |-> "drain", files |-> files, files0 |-> files,
                        workers |-> workers,
                        fileq |-> [i \in 1..Len(files) |-> i],
                        resultq |-> <<>>,
                        left |-> Len(files),
                        task |-> [t \in 1..NumTasks(workers) |->
                                     [pc |-> "pop", threadResult |-> <<>>,
                                      processedByThread |-> 0, job |-> 0]],
                        popped |-> [i \in 1..Len(files) |-> 0],
                        hashed |-> [i \in 1..Len(files) |-> 0],
                        written |-> [i \in 1..Len(files) |-> 0]]
    /\ UNCHANGED indexerVars

\* Lines 87-89: try_pop got an item.
workerPopLeavesItem(t) ==
    /\ hasher.pc = "drain"
    /\ hasher.task[t].pc = "pop"
    /\ hasher.fileq # <<>>
    /\ LET job == Head(hasher.fileq)
       IN hasher' = [hasher EXCEPT
              !.task[t].processedByThread = @ + 1,
              !.task[t].job = job,
              !.task[t].pc = "hash",
              !.popped[job] = @ + 1]
    /\ UNCHANGED indexerVars

workerPop(t) ==
    /\ hasher.pc = "drain"
    /\ hasher.task[t].pc = "pop"
    /\ hasher.fileq # <<>>
    /\ LET job == Head(hasher.fileq)
       IN hasher' = [hasher EXCEPT
              !.fileq = Tail(hasher.fileq),
              !.task[t].processedByThread = @ + 1,
              !.task[t].job = job,
              !.task[t].pc = "hash",
              !.popped[job] = @ + 1]
    /\ UNCHANGED indexerVars

\* Lines 91-96: read files[job]; skip it, or hash it and keep the result.
workerHash(t) ==
    /\ hasher.pc = "drain"
    /\ hasher.task[t].pc = "hash"
    /\ LET job == hasher.task[t].job
           f == hasher.files[job]
           skip == f = NullFile \/ f.hash # HASH_STATE_NOT_COMPUTED
       IN hasher' = IF skip
                    THEN [hasher EXCEPT !.task[t].pc = "pop", !.task[t].job = 0]
                    ELSE [hasher EXCEPT
                             !.task[t].pc = "pop",
                             !.task[t].job = 0,
                             !.task[t].threadResult = Append(@, <<job, computeFileHash(f)>>),
                             !.hashed[job] = @ + 1]
    /\ UNCHANGED indexerVars

\* Lines 87 and 101-103: the index queue is done; push the batch.
workerExitPushesOnlyResults(t) ==
    /\ hasher.pc = "drain"
    /\ hasher.task[t].pc = "pop"
    /\ hasher.fileq = <<>>
    /\ hasher' = IF hasher.task[t].threadResult # <<>>
                 THEN [hasher EXCEPT
                          !.task[t].pc = "done",
                          !.resultq = Append(@, [results |-> hasher.task[t].threadResult,
                                                 count |-> hasher.task[t].processedByThread]),
                          !.left = @ - hasher.task[t].processedByThread]
                 ELSE [hasher EXCEPT !.task[t].pc = "done"]
    /\ UNCHANGED indexerVars

workerExit(t) ==
    /\ hasher.pc = "drain"
    /\ hasher.task[t].pc = "pop"
    /\ hasher.fileq = <<>>
    /\ hasher' = IF hasher.task[t].processedByThread > 0
                 THEN [hasher EXCEPT
                          !.task[t].pc = "done",
                          !.resultq = Append(@, [results |-> hasher.task[t].threadResult,
                                                 count |-> hasher.task[t].processedByThread]),
                          !.left = @ - hasher.task[t].processedByThread]
                 ELSE [hasher EXCEPT !.task[t].pc = "done"]
    /\ UNCHANGED indexerVars

\* The driver reaches its loop once multiplexJob returned.
driverDraining ==
    /\ hasher.pc = "drain"
    /\ \/ hasher.workers > 0
       \/ \A t \in 1..Len(hasher.task) : hasher.task[t].pc = "done"

RECURSIVE setFileHashes(_, _, _)
setFileHashes(files, results, i) ==
    IF i > Len(results) THEN files
    ELSE setFileHashes([files EXCEPT ![results[i][1]].hash = results[i][2]],
                       results, i + 1)

\* How often each index had its hash installed, after one more batch.
RECURSIVE countWrites(_, _, _)
countWrites(written, results, i) ==
    IF i > Len(results) THEN written
    ELSE countWrites([written EXCEPT ![results[i][1]] = @ + 1], results, i + 1)

\* Lines 108-114: wait_pop_timed got a batch; install its hashes.
driverPop ==
    /\ driverDraining
    /\ hasher.resultq # <<>>
    /\ hasher' = [hasher EXCEPT
                     !.resultq = Tail(@),
                     !.files = setFileHashes(@, Head(hasher.resultq).results, 1),
                     !.written = countWrites(@, Head(hasher.resultq).results, 1)]
    /\ UNCHANGED indexerVars

\* Line 108: wait_pop_timed reports done.
driverDone ==
    /\ driverDraining
    /\ hasher.resultq = <<>>
    /\ hasher.left = 0
    /\ hasher' = [hasher EXCEPT !.pc = "done"]
    /\ UNCHANGED indexerVars

NextHash ==
    \/ computeFileHashesFastAbort
    \/ computeFileHashesStart
    \/ \E t \in 1..Len(hasher.task) : workerPop(t)
    \/ \E t \in 1..Len(hasher.task) : workerHash(t)
    \/ \E t \in 1..Len(hasher.task) : workerExit(t)
    \/ driverPop
    \/ driverDone

SpecHash == Init /\ [][NextHash]_vars /\ WF_vars(NextHash)

\* ------------------------------------------------------------- properties
Returned == lastCall = "commitEdit" /\ pc = "idle"

FileIdOf(f) == findFileByPath(gs, f.path)

\* The verdict of classifying `files` against the file table as it was just
\* before the pending slow path began.
BaselineVerdict(files) == canTakeFastPathFiles(files, FALSE, hist.baseline, EmptyMap)

\* C1: when commitEdit canceled the running slow path, the verdict it
\* computed for the merged update equals the verdict of classifying every
\* file of the merged update against the file table from just before the
\* pending slow path began.
C1_MergedVerdictMatchesBaseline ==
    (Returned /\ ret.canceledSlowPath)
        => (ret.canTakeFastPath = BaselineVerdict(ret.updatedFiles))

C3_EvictedFilesReachBaseline ==
    (pc = "idle" /\ initialized) =>
        \A id \in 1..Len(hist.baseline) :
            gs[id] # hist.baseline[id] =>
                /\ id \in DOMAIN evictedFiles
                /\ evictedFiles[id] = hist.baseline[id]

C3_Witness ==
    /\ Returned
    /\ ret.canceledSlowPath
    /\ \E id \in DOMAIN evictedFiles :
          /\ evictedFiles[id] = hist.baseline[id]
          /\ gs[id].ver = ret.epoch
    /\ pendingTypecheckUpdates.editCount >= 2

\* C4: an update returned with canTakeFastPath has no new files and no
\* updated file with an Invalid definition hash.
C4_FastPathHasNoNewOrInvalidFile ==
    (Returned /\ ret.canTakeFastPath) =>
        /\ ~ret.hasNewFiles
        /\ \A i \in 1..Len(ret.updatedFiles) :
              ret.updatedFiles[i].hash # HASH_STATE_INVALID

C4_Witness ==
    /\ Returned
    /\ ret.canTakeFastPath
    /\ ret.canceledSlowPath
    /\ Len(ret.updatedFiles) = 2

\* C5: a returned update has updatedGS set exactly when it takes the slow
\* path, and then updatedGS is the file table with the edit's files installed.
C5_UpdatedGSIffSlowPath ==
    Returned =>
        /\ (ret.updatedGS # <<>>) <=> ~ret.canTakeFastPath
        /\ ret.updatedGS # <<>> =>
              /\ ret.updatedGS = <<gs>>
              /\ \A i \in 1..Len(ret.updatedFiles) :
                    ret.updatedFiles[i] \in Range(ret.updatedGS[1])

C5_Witness ==
    /\ Returned
    /\ ret.canceledSlowPath
    /\ ~ret.canTakeFastPath
    /\ ret.updatedGS = <<gs>>

\* C6: pendingTypecheckUpdates.epoch never decreases, and after each
\* commitEdit it is the epoch of the edit just committed.
C6_PendingEpochFollowsEdits ==
    /\ [](pc = "idle" => pendingTypecheckUpdates.epoch = hist.lastEpoch)
    /\ [][pendingTypecheckUpdates'.epoch >= pendingTypecheckUpdates.epoch]_vars

C6_Witness ==
    /\ Returned
    /\ ret.canTakeFastPath
    /\ ~ret.canceledSlowPath
    /\ pendingTypecheckUpdates.editCount > ret.editCount
    /\ pendingTypecheckUpdates.epoch = hist.lastEpoch
    /\ hist.lastEpoch >= 2

\* C7: the returned update has as many trees as files, and when no merge
\* replaced it, tree i is the tree of file i, in edit order.
C7_TreesAlignedWithFiles ==
    Returned =>
        /\ Len(ret.updatedFiles) = Len(ret.updatedFileIndexes)
        /\ ~ret.canceledSlowPath =>
              \A i \in 1..Len(ret.updatedFiles) :
                  ret.updatedFileIndexes[i] =
                      [file |-> FileIdOf(ret.updatedFiles[i]),
                       ver |-> ret.updatedFiles[i].ver]

C7_Witness ==
    /\ Returned
    /\ ~ret.canceledSlowPath
    /\ Len(ret.updatedFiles) = 2
    /\ FileIdOf(ret.updatedFiles[1]) > FileIdOf(ret.updatedFiles[2])

\* C8: pendingTypecheckUpdates holds every path touched since it was last
\* replaced exactly once, with the content of the latest edit touching it.
C8_PendingHoldsLatestContent ==
    (pc = "idle" /\ initialized) =>
        LET files == pendingTypecheckUpdates.updatedFiles
        IN /\ \A i, j \in 1..Len(files) : files[i].path = files[j].path => i = j
           /\ {files[i].path : i \in 1..Len(files)} = hist.touched
           /\ \A i \in 1..Len(files) : files[i] = gs[FileIdOf(files[i])]

C8_Witness ==
    /\ Returned
    /\ ret.canTakeFastPath
    /\ ~ret.canceledSlowPath
    /\ pendingTypecheckUpdates.editCount >= 3
    /\ Len(pendingTypecheckUpdates.updatedFiles) = 2
    /\ \E i \in 1..2 : pendingTypecheckUpdates.updatedFiles[i].ver < hist.lastEpoch

\* C9: computeFileHashes returns for any number of workers, and then every
\* non-null file has a computed hash and files hashed before keep their hash.
C9_HashesComputed ==
    /\ <>(hasher.pc = "done")
    /\ [](hasher.pc = "done" =>
            /\ Len(hasher.files) = Len(hasher.files0)
            /\ \A i \in 1..Len(hasher.files) :
                  /\ hasher.files[i] # NullFile =>
                        hasher.files[i].hash # HASH_STATE_NOT_COMPUTED
                  /\ hasher.files0[i] = NullFile => hasher.files[i] = NullFile
                  /\ (hasher.files0[i] # NullFile
                      /\ hasher.files0[i].hash # HASH_STATE_NOT_COMPUTED) =>
                        hasher.files[i] = hasher.files0[i]
            /\ hasher.files = computeFileHashes(hasher.files0))

C9_Witness ==
    /\ hasher.pc = "done"
    /\ hasher.workers = 2
    /\ Len(hasher.files) = 3
    /\ hasher.files0[1] = NullFile
    /\ hasher.files0[2].hash = HASH_STATE_NOT_COMPUTED
    /\ hasher.files0[3].hash = 2
    /\ hasher.files[2].hash # HASH_STATE_NOT_COMPUTED
    /\ \E t \in 1..2 : hasher.task[t].processedByThread = 0

\* The part of C9 about commitEdit: every file of a returned update has a
\* computed hash.
C9_ReturnedFilesHashed ==
    Returned =>
        \A i \in 1..Len(ret.updatedFiles) :
            ret.updatedFiles[i].hash # HASH_STATE_NOT_COMPUTED

\* C10: initialize succeeds at most once; a later call fails and changes
\* neither the file table nor the output update; the successful call yields
\* epoch 0, canTakeFastPath false and a copy of the fully hashed file table.
C10_InitializeOnce ==
    /\ [](hist.initCount <= 1)
    /\ [](lastCall = "initialized" =>
            /\ updates.epoch = 0
            /\ ~updates.canTakeFastPath
            /\ updates.updatedGS = <<gs>>
            /\ Len(updates.updatedFileIndexes) = Len(gs)
            /\ \A id \in 1..Len(gs) :
                  /\ gs[id].hash # HASH_STATE_NOT_COMPUTED
                  /\ updates.updatedFileIndexes[id] = [file |-> id, ver |-> gs[id].ver])
    /\ [][lastCall' = "initializeFailed" =>
            (initialized /\ gs' = gs /\ updates' = updates /\ initialized')]_vars

C10_Witness ==
    /\ lastCall = "initializeFailed"
    /\ hist.lastEpoch >= 1
    /\ hist.initCount = 1

\* ------------------------------------------------------------- steps that return
\* The step in which initialize returns normally / commitEdit returns, and
\* the error queue that was installed when the returning commitEdit began.
InitializeReturns == ~initialized /\ initialized'

CommitReturns ==
    /\ pc' = "idle"
    /\ lastCall' = "commitEdit"
    /\ pc = "arbitrated" \/ hist'.lastEpoch # hist.lastEpoch

ErrorQueueAtCall == IF pc = "arbitrated" THEN local.errorQueueBefore ELSE errorQueue

\* C11: when initialize returns and when commitEdit returns, GlobalState's
\* error queue is the queue that was installed before the call.
C11_ErrorQueueRestored ==
    [][/\ InitializeReturns => errorQueue' = errorQueue
       /\ CommitReturns => errorQueue' = ErrorQueueAtCall]_vars

\* The part of C11 about initialize alone.
C11_InitializeRestoresErrorQueue ==
    [][InitializeReturns => errorQueue' = errorQueue]_vars

\* C12: when commitEdit finds the merged update fast and tryCancelSlowPath
\* succeeds, the returned update is canceledSlowPath, canTakeFastPath, has
\* the edit's epoch and editCount = pending editCount + edit's editCount,
\* and evictedFiles maps every file touched by the pending update or the
\* edit to its content from before the pending slow path.
C12_CancelAndMerge ==
    [][(CommitReturns /\ pc = "arbitrated" /\ local.cancelOk
                      /\ local.merged.canTakeFastPath) =>
          /\ ret'.canceledSlowPath
          /\ ret'.canTakeFastPath
          /\ ret'.epoch = local.update.epoch
          /\ ret'.editCount = pendingTypecheckUpdates.editCount + local.update.editCount
          /\ \A path \in local.paths \cup
                         {pendingTypecheckUpdates.updatedFiles[i].path :
                             i \in 1..Len(pendingTypecheckUpdates.updatedFiles)} :
                LET id == findFileByPath(gs', path)
                IN /\ id \in DOMAIN evictedFiles'
                   /\ id \in 1..Len(hist.baseline)
                   /\ evictedFiles'[id] = hist.baseline[id]]_vars

C12_Witness ==
    /\ Returned
    /\ ret.canceledSlowPath
    /\ ret.canTakeFastPath
    /\ hist.cancelCalls = 1
    /\ ret.editCount >= 3
    /\ Len(ret.updatedFiles) = 2

\* C13: when a slow path is running, the edit alone is slow and
\* tryCancelSlowPath returns false, commitEdit returns a slow, non-canceling
\* update holding only the edit's files and edit count with updatedGS a copy
\* of the file table; pendingTypecheckUpdates becomes a copy of that update
\* and the pending timers become clones of the edit's timers.
C13_RaceLoss ==
    [][(CommitReturns /\ pc = "arbitrated" /\ ~local.cancelOk
                      /\ ~local.update.canTakeFastPath) =>
          /\ ~ret'.canceledSlowPath
          /\ ~ret'.canTakeFastPath
          /\ ret'.updatedFiles = local.update.updatedFiles
          /\ ret'.updatedFileIndexes = local.update.updatedFileIndexes
          /\ ret'.editCount = local.update.editCount
          /\ ret'.updatedGS = <<gs'>>
          /\ pendingTypecheckUpdates' = copy(ret')
          /\ pendingTypecheckDiagnosticLatencyTimers' =
                [i \in 1..Len(local.diagnosticLatencyTimers) |->
                    clone(local.diagnosticLatencyTimers[i])]]_vars

C13_Witness ==
    /\ Returned
    /\ hist.enforce # "unchecked"
    /\ hist.cancelCalls = 1
    /\ ~hist.updateVerdict
    /\ ~ret.canceledSlowPath
    /\ pendingTypecheckUpdates.editCount = ret.editCount
    /\ pendingTypecheckDiagnosticLatencyTimers = <<clone(Timer(ret.epoch))>>
    /\ hist.canceledTimers # {}

\* The step in which commitEdit begins, and the hashed files of its edit.
CommitBegins == pc = "idle" /\ hist'.lastEpoch # hist.lastEpoch

ArrivingFiles == IF pc' = "tryCancel" THEN local'.update.updatedFiles ELSE ret'.updatedFiles

\* Every file is already in the table and has the definition hash the table
\* holds for it.
NoDefinitionChange(files, g) ==
    \A i \in 1..Len(files) :
        LET id == findFileByPath(g, files[i].path)
        IN id # 0 /\ files[i].hash = g[id].hash

PreemptsAsFastPath ==
    /\ pc' = "idle"
    /\ hist'.cancelCalls = 0
    /\ ret'.canTakeFastPath
    /\ ~ret'.canceledSlowPath
    /\ pendingTypecheckUpdates'.committedEditCount =
          pendingTypecheckUpdates.committedEditCount + ret'.editCount
    /\ pendingTypecheckDiagnosticLatencyTimers' = pendingTypecheckDiagnosticLatencyTimers

\* C14 as claimed: with a slow path running for a pending update that added
\* a file, an edit that changes no definition hash of existing files makes
\* commitEdit skip tryCancelSlowPath, return a fast, non-canceling update,
\* add its editCount to committedEditCount and leave the pending timers.
C14_PreemptWhenNoHashChanges ==
    [][(CommitBegins /\ epochManager.running /\ pendingTypecheckUpdates.hasNewFiles
                     /\ NoDefinitionChange(ArrivingFiles, gs))
          => PreemptsAsFastPath]_vars

\* C14 as amended: the same when, in addition, the arriving update alone is
\* classified fast path (no file of it has an Invalid definition hash).
C14_PreemptWhenUpdateIsFast ==
    [][(CommitBegins /\ epochManager.running /\ pendingTypecheckUpdates.hasNewFiles
                     /\ NoDefinitionChange(ArrivingFiles, gs)
                     /\ hist'.updateVerdict)
          => PreemptsAsFastPath]_vars

C14_Witness ==
    /\ Returned
    /\ hist.enforce # "unchecked"
    /\ hist.cancelCalls = 0
    /\ pendingTypecheckUpdates.hasNewFiles
    /\ ret.canTakeFastPath
    /\ ~ret.hasNewFiles
    /\ pendingTypecheckUpdates.committedEditCount = ret.editCount
    /\ pendingTypecheckDiagnosticLatencyTimers # <<>>
    /\ pendingTypecheckDiagnosticLatencyTimers[1].id < ret.epoch

\* C15: whenever the epoch manager has accepted the cancellation, the
\* evictions of the arriving edit are already merged with the previous
\* evictedFiles (older version winning).
C15_RollbackDataReadyAtCancel ==
    (pc = "arbitrated" /\ local.cancelOk) =>
        local.newlyEvictedFiles = mergeEvictedFiles(evictedFiles, local.newlyEvictedFiles)

\* C16: commitEdit calls tryCancelSlowPath exactly when a slow path is
\* reported running and the merged update is fast or the update alone is
\* slow; at most once, with the edit's epoch; and canceledSlowPath is
\* returned only when that call returned true.
C16_TryCancelIff ==
    /\ [](/\ hist.cancelCalls <= 1
          /\ hist.cancelCalls = 1 => hist.cancelArg = hist.lastEpoch
          /\ Returned =>
                ((hist.cancelCalls = 1) <=>
                    (hist.enforce # "unchecked"
                     /\ (hist.mergedVerdict \/ ~hist.updateVerdict))))
    /\ [][(CommitReturns /\ ret'.canceledSlowPath)
             => (pc = "arbitrated" /\ local.cancelOk)]_vars

C16_Witness ==
    /\ Returned
    /\ hist.cancelCalls = 1
    /\ hist.cancelArg = ret.epoch
    /\ hist.updateVerdict
    /\ hist.mergedVerdict
    /\ ret.canceledSlowPath

\* The timers the arriving edit carried when the returning commitEdit began.
ArrivingTimers ==
    IF pc = "arbitrated" THEN local.diagnosticLatencyTimers ELSE <<Timer(ret'.epoch)>>

Clones(timers) == [i \in 1..Len(timers) |-> clone(timers[i])]

\* C18: after commitEdit the pending timer list is: clones of the edit's
\* timers followed by the previously pending ones, which moved into the
\* edit's list uncanceled, if a slow path was canceled; else clones of the
\* edit's timers with every previously pending timer canceled, if the update
\* is slow; else unchanged.
C18_TimerCases ==
    [][CommitReturns =>
          LET pending == pendingTypecheckDiagnosticLatencyTimers
          IN IF ret'.canceledSlowPath
             THEN /\ pendingTypecheckDiagnosticLatencyTimers' =
                        Clones(ArrivingTimers \o pending)
                  /\ editTimers' = ArrivingTimers \o pending
                  /\ hist'.canceledTimers = {}
             ELSE IF ~ret'.canTakeFastPath
                  THEN /\ pendingTypecheckDiagnosticLatencyTimers' = Clones(ArrivingTimers)
                       /\ editTimers' = ArrivingTimers
                       /\ hist'.canceledTimers = Range(pending)
                  ELSE /\ pendingTypecheckDiagnosticLatencyTimers' = pending
                       /\ hist'.canceledTimers = {}]_vars

C18_Witness ==
    /\ Returned
    /\ ret.canceledSlowPath
    /\ Len(pendingTypecheckDiagnosticLatencyTimers) = 3
    /\ Len(editTimers) = 3
    /\ editTimers[1] = Timer(ret.epoch)
    /\ pendingTypecheckDiagnosticLatencyTimers[3].clones = 3
    /\ hist.canceledTimers = {}

\* C19: committedEditCount is not increased by a fast-path commitEdit that
\* found no slow path running, nor by a commitEdit that canceled the slow
\* path.
C19_CommittedCountsOnlyPreemptions ==
    [][CommitReturns =>
          /\ (ret'.canTakeFastPath /\ ~ret'.canceledSlowPath
              /\ hist'.enforce = "unchecked") =>
                pendingTypecheckUpdates'.committedEditCount
                    <= pendingTypecheckUpdates.committedEditCount
          /\ ret'.canceledSlowPath =>
                pendingTypecheckUpdates'.committedEditCount
                    <= pendingTypecheckUpdates.committedEditCount]_vars

\* The second half of C19 alone.
C19_CancelKeepsCommittedCount ==
    [][(CommitReturns /\ ret'.canceledSlowPath) =>
          pendingTypecheckUpdates'.committedEditCount
              <= pendingTypecheckUpdates.committedEditCount]_vars

\* C20: after a fast-path commitEdit without cancellation the pending
\* editCount is the prior value plus the update's editCount; after a
\* commitEdit that canceled the slow path it is the returned update's
\* editCount; after a slow path that canceled nothing it is the update's.
C20_NoEditCountedTwice ==
    [][CommitReturns =>
          IF ret'.canceledSlowPath
          THEN pendingTypecheckUpdates'.editCount = ret'.editCount
          ELSE IF ret'.canTakeFastPath
               THEN pendingTypecheckUpdates'.editCount =
                        pendingTypecheckUpdates.editCount + ret'.editCount
               ELSE pendingTypecheckUpdates'.editCount = ret'.editCount]_vars

RECURSIVE SumPushed(_)
\* The processed counts the worker tasks 1..t have pushed (lines 101-103).
SumPushed(t) ==
    IF t = 0 THEN 0
    ELSE SumPushed(t - 1)
         + (IF hasher.task[t].pc = "done" /\ hasher.task[t].processedByThread > 0
            THEN hasher.task[t].processedByThread ELSE 0)

HashIndexes == 1..Len(hasher.files)

\* No index leaves the queue twice, no file is hashed twice, no hash is
\* installed twice, and the driver installs no hash on a file that a worker
\* has popped and not yet finished with.
HashingIsDisjoint ==
    /\ [](\A i \in HashIndexes :
            hasher.popped[i] <= 1 /\ hasher.hashed[i] <= 1 /\ hasher.written[i] <= 1)
    /\ [][\A i \in HashIndexes :
            (hasher.pc = "drain" /\ hasher'.written[i] # hasher.written[i]) =>
                \A t \in 1..Len(hasher.task) :
                    ~(hasher.task[t].pc = "hash" /\ hasher.task[t].job = i)]_vars

EveryIndexPoppedOnce ==
    /\ \A i \in HashIndexes : hasher.popped[i] = 1
    /\ SumPushed(Len(hasher.task)) = Len(hasher.files)

\* C17 as claimed: on return from computeFileHashes every index was popped
\* by exactly one worker and the pushed counts sum to |files|, for any files.
C17_EveryIndexPoppedForAnyFiles ==
    hasher.pc = "done" => EveryIndexPoppedOnce

\* C17 as amended: hashing is disjoint always, and every index was popped
\* exactly once with the pushed counts summing to |files| whenever some
\* non-null file came without a hash, so that the workers were started.
C17_DisjointHashing ==
    /\ HashingIsDisjoint
    /\ [](hasher.pc = "done" /\ ~allFilesHaveHashes(hasher.files0)
            => /\ EveryIndexPoppedOnce
               /\ \A i \in HashIndexes :
                     hasher.written[i] = hasher.hashed[i]
                     /\ (hasher.hashed[i] = 1 <=>
                           (hasher.files0[i] # NullFile
                            /\ hasher.files0[i].hash = HASH_STATE_NOT_COMPUTED)))

C17_Witness ==
    /\ hasher.pc = "done"
    /\ hasher.workers = 2
    /\ Len(hasher.task) = 2
    /\ Len(hasher.files) = 3
    /\ \A t \in 1..2 : hasher.task[t].processedByThread > 0
    /\ \E i, j \in 1..3 : i # j /\ hasher.written[i] = 1 /\ hasher.written[j] = 1
    /\ \E i \in 1..3 : hasher.popped[i] = 1 /\ hasher.hashed[i] = 0

====
